---------------------------- MODULE Spec2Model ----------------------------
(***************************************************************************)
(* Model of app.py: the homework dashboard.  One run of the script builds  *)
(* the roster from the spreadsheet rows, classifies the uploaded files,    *)
(* computes the submitted/missing statistics and then serves the AI tab,   *)
(* whose state (last_sel_file, current_analysis, chat_messages) lives in   *)
(* st.session_state and survives from one run of the script to the next.   *)
(*                                                                         *)
(* A Python str is a sequence of characters, each character a one-element  *)
(* TLA+ string; a character outside ASCII is written as one token (its     *)
(* pinyin), so that len() counts it once.  bytes are sequences of numbers. *)
(***************************************************************************)
EXTENDS Integers, Sequences, FiniteSets

VARIABLES
    text, extracted,                       \* extract_id: argument, result
    rows, files,                           \* df_roster rows, homework_files
    pc, idx,                               \* position in the script, loop index
    roster_dict, all_students,
    submitted_data, files_map, md5_map, empty_files,
    submitted_ids, missing_ids,
    sel_file, clicked, prompt,             \* widgets of the AI tab in this run
    session_keys,                          \* the keys in st.session_state
    last_sel_file, current_analysis, chat_messages,   \* and their values
    ocr_res, eval_res, shown,              \* locals and output of the AI tab
    clock, analysis_at, chat_at            \* history: when stored / appended

xvars == <<text, extracted>>
rvars == <<rows, files, idx, roster_dict, all_students, submitted_data,
           files_map, md5_map, empty_files, submitted_ids, missing_ids>>
svars == <<sel_file, clicked, prompt, session_keys, last_sel_file, current_analysis,
           chat_messages, ocr_res, eval_res, shown, clock, analysis_at, chat_at>>
vars == <<xvars, rvars, pc, svars>>

\* Python's None where a str is expected (extract_id's result, a widget with
\* no input): the empty sequence, which `if x:` takes as false like None.
None == <<>>

---------------------------------------------------------------------------
(* Bounds of the model. *)
MaxLen == 10
MaxRows == 2
MaxFiles == 2
MaxClock == 4

---------------------------------------------------------------------------
(* Strings. *)

Digits == {"0", "1", "2", "3", "4", "5", "6", "7", "8", "9"}

DigitChar(d) ==
    CASE d = 0 -> "0" [] d = 1 -> "1" [] d = 2 -> "2" [] d = 3 -> "3"
      [] d = 4 -> "4" [] d = 5 -> "5" [] d = 6 -> "6" [] d = 7 -> "7"
      [] d = 8 -> "8" [] d = 9 -> "9"

RECURSIVE NatStr(_)
NatStr(n) == IF n < 10 THEN <<DigitChar(n)>>
             ELSE NatStr(n \div 10) \o <<DigitChar(n % 10)>>

\* str(x) of an int: its decimal form, with a sign when negative.
IntStr(n) == IF n < 0 THEN <<"-">> \o NatStr(0 - n) ELSE NatStr(n)

\* A Python value that str() is applied to: a str, an int, or the float NaN
\* that pandas holds for a missing cell.
StrVal(s) == [type |-> "str", val |-> s, num |-> 0]
IntVal(n) == [type |-> "int", val |-> <<>>, num |-> n]
NaN == [type |-> "nan", val |-> <<>>, num |-> 0]
Str(x) ==
    CASE x.type = "str" -> x.val
      [] x.type = "int" -> IntStr(x.num)
      [] x.type = "nan" -> <<"n", "a", "n">>

\* The length of the identifier: the 9 of the pattern \d{9}.
IdLen == 9

\* \d{9} matches at position i of s.
MatchAt(s, i) ==
    /\ i + IdLen - 1 <= Len(s)
    /\ \A k \in i .. (i + IdLen - 1) : s[k] \in Digits

\* re.search: the match at the first position, left to right, where the
\* pattern matches; None when it matches nowhere.
RECURSIVE SearchFrom(_, _)
SearchFrom(s, i) ==
    IF i + IdLen - 1 > Len(s) THEN None
    ELSE IF MatchAt(s, i) THEN SubSeq(s, i, i + IdLen - 1)
    ELSE SearchFrom(s, i + 1)

\* The mutant: the last match instead of the first.
RECURSIVE SearchBack(_, _)
SearchBack(s, i) ==
    IF i < 1 THEN None
    ELSE IF MatchAt(s, i) THEN SubSeq(s, i, i + IdLen - 1)
    ELSE SearchBack(s, i - 1)

extract_id_last(x) == SearchBack(Str(x), Len(Str(x)))

extract_id(x) == SearchFrom(Str(x), 1)

---------------------------------------------------------------------------
(* extract_id as a call: the argument, then the returned value. *)

Alphabet == {"1", "2", "a"}
StringsUpTo(S, n) == UNION {[1 .. k -> S] : k \in 0 .. n}
TenDigits == <<"1", "2", "3", "4", "5", "6", "7", "8", "9", "0">>

ExtractInputs ==
    {StrVal(s) : s \in StringsUpTo(Alphabet, MaxLen)}
        \cup {IntVal(n) : n \in {0, 7, 123456789, 1234567890, 0 - 123456789}}
        \cup {NaN, StrVal(<<"a">> \o TenDigits \o <<"a">> \o TenDigits)}

---------------------------------------------------------------------------
(* The roster: lines 176-196. *)

\* " ".join(parts)
RECURSIVE Join(_)
Join(parts) ==
    IF parts = <<>> THEN <<>>
    ELSE IF Len(parts) = 1 THEN parts[1]
    ELSE parts[1] \o <<" ">> \o Join(Tail(parts))

\* str.strip(): leading and trailing whitespace removed.
RECURSIVE LStrip(_)
LStrip(s) == IF s # <<>> /\ s[1] = " " THEN LStrip(Tail(s)) ELSE s
RECURSIVE RStrip(_)
RStrip(s) == IF s # <<>> /\ s[Len(s)] = " " THEN RStrip(SubSeq(s, 1, Len(s) - 1))
             ELSE s
Strip(s) == RStrip(LStrip(s))

\* str.isdigit(): at least one character, and all of them digits.
IsDigit(s) == s # <<>> /\ \A k \in 1 .. Len(s) : s[k] \in Digits

\* The sentinel "unknown name" (four characters).
UnknownName == <<"wei", "zhi", "xing", "ming">>

\* row.fillna("").astype(str): a missing cell becomes the empty string.
FillNa(cell) == IF cell.type = "nan" THEN <<>> ELSE Str(cell)

\* row_str of line 180.
RowStr(row) == Join([k \in 1 .. Len(row) |-> FillNa(row[k])])

\* Lines 183-188: the first item of row.values, from column k on, that is not
\* the identifier, is not all digits and has at least two characters.  The
\* loop reads row.values, not the row with its missing cells filled.
RECURSIVE PickName(_, _, _)
PickName(row, sid, k) ==
    IF k > Len(row) THEN UnknownName
    ELSE LET item == Strip(Str(row[k]))
         IN  IF item # sid /\ ~IsDigit(item) /\ Len(item) >= 2 THEN item
             ELSE PickName(row, sid, k + 1)

\* d[k] = v
Put(d, k, v) == [x \in DOMAIN d \cup {k} |-> IF x = k THEN v ELSE d[x]]
EmptyDict == [x \in {} |-> <<>>]

\* The mutant: an identifier already in the roster keeps its entry.
RosterStepFirstWins(rd, row) ==
    LET sid == extract_id(StrVal(RowStr(row)))
    IN  IF sid # None /\ sid \notin DOMAIN rd
        THEN Put(rd, sid, PickName(row, sid, 1)) ELSE rd

\* One iteration of the loop of lines 179-189.
RosterStep(rd, row) ==
    LET sid == extract_id(StrVal(RowStr(row)))
    IN  IF sid # None THEN Put(rd, sid, PickName(row, sid, 1)) ELSE rd

RECURSIVE BuildRoster(_, _)
BuildRoster(rd, rs) ==
    IF rs = <<>> THEN rd ELSE BuildRoster(RosterStep(rd, Head(rs)), Tail(rs))

---------------------------------------------------------------------------
(* The uploaded files: lines 198-224. *)

\* The size below which a file is listed as anomalous (line 214).
SizeThreshold == 100

StartsWith(s, p) == Len(s) >= Len(p) /\ SubSeq(s, 1, Len(p)) = p
EndsWith(s, p) == Len(s) >= Len(p) /\ SubSeq(s, Len(s) - Len(p) + 1, Len(s)) = p

\* The mutant: only the dot marks a hidden file.
HiddenDotOnly(fname) == StartsWith(fname, <<".">>)

\* fname.startswith("~$") or fname.startswith(".") of line 207.
Hidden(fname) == StartsWith(fname, <<"~", "$">>) \/ StartsWith(fname, <<".">>)

\* get_md5: a digest of fixed size computed over every byte of the content,
\* and over nothing else: here the sum of the bytes weighted by position,
\* modulo a prime, halving the content to add it up.  (MD5 itself is
\* idealised: the contents of Contents below have pairwise different digests.)
RECURSIVE DigestOf(_, _, _)
DigestOf(b, lo, hi) ==
    IF lo > hi THEN 7
    ELSE IF lo = hi THEN (lo * (b[lo] + 1)) % 65521
    ELSE LET mid == (lo + hi) \div 2
         IN  (DigestOf(b, lo, mid) + DigestOf(b, mid + 1, hi)) % 65521

\* The mutant: a digest that reads only the first byte.
get_md5_first(file_bytes) == DigestOf(file_bytes, 1, 1)

get_md5(file_bytes) == DigestOf(file_bytes, 1, Len(file_bytes))

\* The four collections the loop fills.
NoFiles == [submitted_data |-> <<>>, files_map |-> EmptyDict,
            md5_map |-> EmptyDict, empty_files |-> <<>>]

\* The record of line 215.
EmptyRecord(sid, rd, f) ==
    [sid |-> sid, name |-> rd[sid], fname |-> f.name,
     size |-> NatStr(Len(f.bytes)) \o <<"B">>]

\* `sid and sid in all_students` of line 209.
OnRoster(sid, students) == sid # None /\ sid \in students

\* The mutant: every file is hashed, the small ones too.
IsAnomalousNever(f) == FALSE

\* `f_size < 100` of line 214; f.size is the length of the content.
IsAnomalous(f) == Len(f.bytes) < SizeThreshold

\* One iteration of the loop of lines 205-219.
ClassifyStep(acc, f, rd, students) ==
    LET fname == f.name
        sid == extract_id(StrVal(fname))
    IN  IF Hidden(fname) THEN acc
        ELSE IF ~OnRoster(sid, students) THEN acc
        ELSE LET a1 == [acc EXCEPT !.files_map = Put(@, fname, f),
                                   !.submitted_data = Append(@, sid)]
             IN  IF IsAnomalous(f)
                 THEN [a1 EXCEPT !.empty_files = Append(@, EmptyRecord(sid, rd, f))]
                 ELSE LET f_md5 == get_md5(f.bytes)
                          old == IF f_md5 \in DOMAIN a1.md5_map
                                 THEN a1.md5_map[f_md5] ELSE <<>>
                      IN  [a1 EXCEPT !.md5_map =
                                         Put(@, f_md5, Append(old, <<sid, fname>>))]

RECURSIVE ClassifyAll(_, _, _, _)
ClassifyAll(acc, fs, rd, students) ==
    IF fs = <<>> THEN acc
    ELSE ClassifyAll(ClassifyStep(acc, Head(fs), rd, students), Tail(fs), rd, students)

Range(s) == {s[k] : k \in 1 .. Len(s)}

\* Line 222.
SubmittedIds(data) == Range(data)

\* The mutant: the submitted identifiers are not taken off the roster's.
MissingIdsAll(students, submitted) == students

\* Line 223.
MissingIds(students, submitted) == students \ submitted

---------------------------------------------------------------------------
(* Inputs: spreadsheet rows and uploaded files. *)

ID1 == <<"1", "2", "3", "4", "5", "6", "7", "8", "9">>
ID2 == <<"9", "8", "7", "6", "5", "4", "3", "2", "1">>
ID3 == <<"5", "5", "5", "5", "5", "5", "5", "5", "5">>
Li == <<"L", "i">>
Wu == <<" ", "W", "u">>

\* A spreadsheet read with dtype=str: every cell a str or missing.
Cells == {NaN, StrVal(ID1), StrVal(ID2), StrVal(Li), StrVal(Wu), StrVal(<<"L">>)}
TwoColumns == {<<a, b>> : a \in Cells, b \in Cells}
WideRosters == StringsUpTo(TwoColumns, MaxRows)

RowLi == <<StrVal(ID1), StrVal(Li)>>
RowWu == <<StrVal(Wu), StrVal(ID2)>>
FewRosters == {<<RowLi>>, <<RowLi, RowWu>>, <<<<StrVal(Li), StrVal(Wu)>>>>}

Pdf == <<".", "p", "d", "f">>
NameA == ID1 \o <<"a">> \o Pdf
NameB == ID2 \o <<".", "P", "D", "F">>
NameC == <<"h", "w">> \o ID1 \o <<".", "t", "x", "t">>
NameHidden == <<".">> \o ID1 \o Pdf
NameTemp == <<"~", "$">> \o ID2 \o Pdf
NameUnknown == ID3 \o Pdf
NameNoId == <<"h", "w">> \o Pdf
Names == {NameA, NameB, NameC, NameHidden, NameTemp, NameUnknown, NameNoId}

Rep(n, b) == [k \in 1 .. n |-> b]
Small == Rep(SizeThreshold - 1, 65)
Big == Rep(SizeThreshold, 65)
BigOther == Rep(SizeThreshold - 1, 65) \o <<66>>
Contents == {Small, Big, BigOther}

File(n, b) == [name |-> n, bytes |-> b]
FileSet == {File(n, b) : n \in Names, b \in Contents}
Batches == StringsUpTo(FileSet, MaxFiles)
FewBatches == {<<File(NameA, Big)>>}

\* The batches of the AI tab's runs: none, one PDF, two PDFs, no PDF at all,
\* and a batch whose PDF has the name of another batch's and other content.
SessionBatches ==
    {<<>>, <<File(NameA, Big)>>, <<File(NameA, Big), File(NameB, Big)>>,
     <<File(NameC, Big)>>, <<File(NameA, BigOther), File(NameUnknown, Big)>>}

---------------------------------------------------------------------------
(* The states before anything has run. *)

XIdle == text = NaN /\ extracted = None
RIdle ==
    /\ rows = <<>> /\ files = <<>> /\ idx = 1
    /\ roster_dict = EmptyDict /\ all_students = {}
    /\ submitted_data = <<>> /\ files_map = EmptyDict
    /\ md5_map = EmptyDict /\ empty_files = <<>>
    /\ submitted_ids = {} /\ missing_ids = {}
\* What a run has put on the AI tab: the error of st.error, the analysis and
\* the chat messages rendered, the messages sent to the chat model, and the
\* warning that no PDF is there.
NoOutput == [error |-> <<>>, analysis |-> <<>>, chat |-> <<>>, sent |-> <<>>,
             warning |-> FALSE]
SIdle ==
    /\ sel_file = None /\ clicked = FALSE /\ prompt = None
    /\ session_keys = {}
    /\ last_sel_file = None /\ current_analysis = <<>> /\ chat_messages = <<>>
    /\ ocr_res = [status |-> "none", text |-> <<>>] /\ eval_res = <<>>
    /\ shown = NoOutput
    /\ clock = 0 /\ analysis_at = [of |-> None, at |-> 0] /\ chat_at = <<>>

---------------------------------------------------------------------------
(* extract_id, called on one value. *)

InitExtract ==
    /\ text \in ExtractInputs /\ extracted = None
    /\ pc = "call" /\ RIdle /\ SIdle

Extract ==
    /\ pc = "call"
    /\ extracted' = extract_id(text)
    /\ pc' = "returned"
    /\ UNCHANGED <<text, rvars, svars>>

SpecExtract == InitExtract /\ [][Extract]_vars

---------------------------------------------------------------------------
(* One run of the script up to the statistics, a loop iteration a step. *)

RunInit(rosters, batches) ==
    /\ rows \in rosters /\ files \in batches
    /\ idx = 1 /\ pc = "roster"
    /\ roster_dict = EmptyDict /\ all_students = {}
    /\ submitted_data = <<>> /\ files_map = EmptyDict
    /\ md5_map = EmptyDict /\ empty_files = <<>>
    /\ submitted_ids = {} /\ missing_ids = {}
    /\ XIdle /\ SIdle

\* Lines 179-189, one row.
RosterRow ==
    /\ pc = "roster" /\ idx <= Len(rows)
    /\ roster_dict' = RosterStep(roster_dict, rows[idx])
    /\ idx' = idx + 1
    /\ UNCHANGED <<rows, files, all_students, submitted_data, files_map, md5_map,
                   empty_files, submitted_ids, missing_ids, pc, xvars, svars>>

\* Lines 190-193: the script stops when the roster has no identifier.
RosterDone ==
    /\ pc = "roster" /\ idx > Len(rows)
    /\ all_students' = DOMAIN roster_dict
    /\ pc' = IF DOMAIN roster_dict = {} THEN "stopped" ELSE "files"
    /\ idx' = 1
    /\ UNCHANGED <<rows, files, roster_dict, submitted_data, files_map, md5_map,
                   empty_files, submitted_ids, missing_ids, xvars, svars>>

\* Lines 205-219, one file.
ClassifyFile ==
    /\ pc = "files" /\ idx <= Len(files)
    /\ LET acc == ClassifyStep(
                      [submitted_data |-> submitted_data, files_map |-> files_map,
                       md5_map |-> md5_map, empty_files |-> empty_files],
                      files[idx], roster_dict, all_students)
       IN  /\ submitted_data' = acc.submitted_data
           /\ files_map' = acc.files_map
           /\ md5_map' = acc.md5_map
           /\ empty_files' = acc.empty_files
    /\ idx' = idx + 1
    /\ UNCHANGED <<rows, files, roster_dict, all_students, submitted_ids,
                   missing_ids, pc, xvars, svars>>

\* Lines 222-223.  (The rate of line 224 is a number for display, computed
\* from the two sets and read by nothing else; it is left out.)
Statistics ==
    /\ pc = "files" /\ idx > Len(files)
    /\ submitted_ids' = SubmittedIds(submitted_data)
    /\ missing_ids' = MissingIds(all_students, SubmittedIds(submitted_data))
    /\ pc' = "done"
    /\ UNCHANGED <<rows, files, idx, roster_dict, all_students, submitted_data,
                   files_map, md5_map, empty_files, xvars, svars>>

NextRun == RosterRow \/ RosterDone \/ ClassifyFile \/ Statistics

\* Few rosters, every batch of files.
Init == RunInit(FewRosters, Batches)
Spec == Init /\ [][NextRun]_vars

\* Every roster, few batches of files.
InitRoster == RunInit(WideRosters, FewBatches)
SpecRoster == InitRoster /\ [][NextRun]_vars

---------------------------------------------------------------------------
(* The AI tab: lines 275-369.  The remote calls answer as the environment  *)
(* decides; the script sees only the string each wrapper returns.          *)

UpperCase == <<"A", "B", "C", "D", "E", "F", "G", "H", "I", "J", "K", "L", "M",
               "N", "O", "P", "Q", "R", "S", "T", "U", "V", "W", "X", "Y", "Z">>
LowerCase == <<"a", "b", "c", "d", "e", "f", "g", "h", "i", "j", "k", "l", "m",
               "n", "o", "p", "q", "r", "s", "t", "u", "v", "w", "x", "y", "z">>
LowerChar(c) ==
    IF \E k \in 1 .. Len(UpperCase) : UpperCase[k] = c
    THEN LowerCase[CHOOSE k \in 1 .. Len(UpperCase) : UpperCase[k] = c]
    ELSE c
\* str.lower()
Lower(s) == [k \in 1 .. Len(s) |-> LowerChar(s[k])]

\* `p in s` for strings.
Contains(s, p) ==
    \E i \in 1 .. (Len(s) - Len(p) + 1) : SubSeq(s, i, i + Len(p) - 1) = p

\* Line 278: the names of files_map that end with .pdf.
PdfCandidates(fmap) == {f \in DOMAIN fmap : EndsWith(Lower(f), Pdf)}

\* The cross mark, and "API cuowu" (API error), that line 311 looks for.
CrossMark == <<"cross">>
ApiErrorMark == <<"A", "P", "I", " ", "cuo", "wu">>

\* call_vl_ocr: what happened in the call, and the string it returns then:
\* line 85 (no page image), line 111 (status not 200), line 114 (an
\* exception: a timeout, a transport error, a response of another shape),
\* line 112 (the text read, which may itself hold a cross mark).
OcrEvents == {"unreadable", "non200", "exception", "ok", "ok_cross"}
call_vl_ocr(ev) ==
    [status |-> IF ev = "ok_cross" THEN "ok" ELSE ev,
     text |->
        CASE ev = "unreadable" ->
                 CrossMark \o <<" ", "wu", "fa", "du", "qu", "wen", "jian", "tu", "xiang">>
          [] ev = "non200" ->
                 <<"O", "C", "R", " ">> \o ApiErrorMark \o <<" ", "5", "0", "0", ":", " ">>
          [] ev = "exception" ->
                 <<"O", "C", "R", " ", "qing", "qiu", "yi", "chang", ":", " ", "t", "/", "o">>
          [] ev = "ok" -> <<"Q", "1", ":", " ", "4", "2">>
          [] ev = "ok_cross" -> <<"Q", "1", ":", " ">> \o CrossMark]

\* Line 311: the test that takes ocr_res for a failure.
OcrSniffed(res) == Contains(res.text, CrossMark) \/ Contains(res.text, ApiErrorMark)

\* call_ai_grader: the grade, or the string of line 132.
GraderEvents == {"ok", "failed"}
call_ai_grader(ev) ==
    IF ev = "ok" THEN <<"8", "5">>
    ELSE <<"ping", "fen", "fu", "wu", "chao", "shi", "huo", "shi", "bai">>

\* call_chat_bot: the answer, or the string of lines 146 and 149.
ChatEvents == {"ok", "failed"}
call_chat_bot(ev) ==
    IF ev = "ok" THEN <<"o", "k">>
    ELSE <<"dui", "hua", "lian", "jie", "shi", "bai">>

Question == <<"w", "h", "y", "?">>
Msg(role, content) == [role |-> role, content |-> content]
\* The system message of lines 351-362, which quotes the analysis.
SystemMsg(data) == [role |-> "system", content |-> data.ocr \o <<"|">> \o data.eval]

\* st.session_state as the AI tab uses it.
Session == [keys |-> session_keys, last_sel_file |-> last_sel_file,
            current_analysis |-> current_analysis, chat_messages |-> chat_messages]

\* Lines 295-298: the keys not yet in session_state get their defaults.
Defaults(st) ==
    [keys |-> st.keys \cup {"current_analysis", "chat_messages"},
     last_sel_file |-> st.last_sel_file,
     current_analysis |->
         IF "current_analysis" \in st.keys THEN st.current_analysis ELSE <<>>,
     chat_messages |->
         IF "chat_messages" \in st.keys THEN st.chat_messages ELSE <<>>]

\* The mutant: a change of file discards the analysis and keeps the chat.
SyncStateKeepChat(st, sel) ==
    LET s1 == IF "last_sel_file" \in st.keys THEN st
              ELSE [st EXCEPT !.keys = @ \cup {"last_sel_file"}, !.last_sel_file = sel]
        s2 == IF s1.last_sel_file # sel
              THEN [s1 EXCEPT !.keys = @ \cup {"current_analysis"},
                              !.current_analysis = <<>>, !.last_sel_file = sel]
              ELSE s1
    IN  Defaults(s2)

\* The mutant: a change of file empties the chat and keeps the analysis.
SyncStateKeepAnalysis(st, sel) ==
    LET s1 == IF "last_sel_file" \in st.keys THEN st
              ELSE [st EXCEPT !.keys = @ \cup {"last_sel_file"}, !.last_sel_file = sel]
        s2 == IF s1.last_sel_file # sel
              THEN [s1 EXCEPT !.keys = @ \cup {"chat_messages"},
                              !.chat_messages = <<>>, !.last_sel_file = sel]
              ELSE s1
    IN  Defaults(s2)

\* Lines 286-298.
SyncState(st, sel) ==
    LET s1 == IF "last_sel_file" \in st.keys THEN st
              ELSE [st EXCEPT !.keys = @ \cup {"last_sel_file"}, !.last_sel_file = sel]
        s2 == IF s1.last_sel_file # sel
              THEN [s1 EXCEPT !.keys = @ \cup {"current_analysis", "chat_messages"},
                              !.current_analysis = <<>>, !.chat_messages = <<>>,
                              !.last_sel_file = sel]
              ELSE s1
    IN  Defaults(s2)

---------------------------------------------------------------------------
(* The runs of the script in one browser session.  A run starts when a     *)
(* widget changes: it reads the roster and the files again (lines 171-224, *)
(* here in one step), then serves the AI tab in three steps.               *)

\* The script's variables after lines 176-224 on roster rs and batch fs.
Reconciled(rs, fs) ==
    LET rd == BuildRoster(EmptyDict, rs)
        acc == IF DOMAIN rd = {} THEN NoFiles
               ELSE ClassifyAll(NoFiles, fs, rd, DOMAIN rd)
        sub == SubmittedIds(acc.submitted_data)
    IN  [rows |-> rs, files |-> fs,
         roster_dict |-> rd, all_students |-> DOMAIN rd, acc |-> acc,
         submitted_ids |-> sub, missing_ids |-> MissingIds(DOMAIN rd, sub)]

\* The runs on the rosters and batches of the session.
SessionRuns == {Reconciled(rs, fs) : rs \in FewRosters, fs \in SessionBatches}

Reconcile(r) ==
    /\ rows' = r.rows /\ files' = r.files /\ idx' = 1
    /\ roster_dict' = r.roster_dict /\ all_students' = r.all_students
    /\ submitted_data' = r.acc.submitted_data /\ files_map' = r.acc.files_map
    /\ md5_map' = r.acc.md5_map /\ empty_files' = r.acc.empty_files
    /\ submitted_ids' = r.submitted_ids /\ missing_ids' = r.missing_ids

\* A new run: the locals of the AI tab are not yet set, nothing is shown.
FreshRun ==
    /\ ocr_res' = [status |-> "none", text |-> <<>>] /\ eval_res' = <<>>
    /\ shown' = NoOutput

InitSession == pc = "idle" /\ XIdle /\ RIdle /\ SIdle

\* Lines 171-173 and 191-196: no roster, or a roster with no identifier.
RerunStopped ==
    /\ pc = "idle"
    /\ \E r \in SessionRuns : r.all_students = {} /\ Reconcile(r)
    /\ FreshRun
    /\ sel_file' = None /\ clicked' = FALSE /\ prompt' = None
    /\ UNCHANGED <<pc, xvars, session_keys, last_sel_file, current_analysis,
                   chat_messages, clock, analysis_at, chat_at>>

\* Lines 280-281: no PDF among the counted files; session_state is not read.
RerunNoPdf ==
    /\ pc = "idle"
    /\ \E r \in SessionRuns :
           /\ r.all_students # {}
           /\ PdfCandidates(r.acc.files_map) = {}
           /\ Reconcile(r)
    /\ ocr_res' = [status |-> "none", text |-> <<>>] /\ eval_res' = <<>>
    /\ shown' = [NoOutput EXCEPT !.warning = TRUE]
    /\ sel_file' = None /\ clicked' = FALSE /\ prompt' = None
    /\ UNCHANGED <<pc, xvars, session_keys, last_sel_file, current_analysis,
                   chat_messages, clock, analysis_at, chat_at>>

\* Line 283: the run reaches the selectbox; one widget at most has fired
\* (the button, or the chat input with a question).
RerunTab ==
    /\ pc = "idle"
    /\ \E r \in SessionRuns :
           /\ r.all_students # {}
           /\ Reconcile(r)
           /\ sel_file' \in PdfCandidates(r.acc.files_map)
    /\ \E w \in {"none", "button", "chat"} :
           /\ w # "none" => clock < MaxClock
           /\ clicked' = (w = "button")
           /\ prompt' = IF w = "chat" THEN Question ELSE None
    /\ FreshRun
    /\ pc' = "sync"
    /\ UNCHANGED <<xvars, session_keys, last_sel_file, current_analysis,
                   chat_messages, clock, analysis_at, chat_at>>

\* Lines 286-298.
Sync ==
    /\ pc = "sync"
    /\ LET st == SyncState(Session, sel_file)
       IN  /\ session_keys' = st.keys
           /\ last_sel_file' = st.last_sel_file
           /\ current_analysis' = st.current_analysis
           /\ chat_messages' = st.chat_messages
           /\ chat_at' = IF st.chat_messages = chat_messages THEN chat_at ELSE <<>>
    /\ pc' = "button"
    /\ UNCHANGED <<xvars, rvars, sel_file, clicked, prompt, ocr_res, eval_res,
                   shown, clock, analysis_at>>

\* Lines 301-323.
Button ==
    /\ pc = "button"
    /\ IF clicked
       THEN \E ev \in OcrEvents :
                LET res == call_vl_ocr(ev)
                IN  /\ ocr_res' = res
                    /\ IF OcrSniffed(res)
                       THEN /\ shown' = [shown EXCEPT !.error = res.text]
                            /\ UNCHANGED <<eval_res, current_analysis, chat_messages,
                                           clock, analysis_at, chat_at>>
                       ELSE \E g \in GraderEvents :
                                /\ eval_res' = <<call_ai_grader(g)>>
                                /\ current_analysis' =
                                       <<[ocr |-> res.text, eval |-> call_ai_grader(g)]>>
                                /\ chat_messages' = <<>>
                                /\ clock' = clock + 1
                                /\ analysis_at' = [of |-> sel_file, at |-> clock + 1]
                                /\ chat_at' = <<>>
                                /\ UNCHANGED shown
       ELSE UNCHANGED <<ocr_res, eval_res, shown, current_analysis, chat_messages,
                        clock, analysis_at, chat_at>>
    /\ pc' = "render"
    /\ UNCHANGED <<xvars, rvars, sel_file, clicked, prompt, session_keys,
                   last_sel_file>>

\* Lines 326-369.
Render ==
    /\ pc = "render"
    /\ IF current_analysis # <<>>
       THEN LET data == current_analysis[1]
            IN  IF prompt # None
                THEN \E ev \in ChatEvents :
                         LET asked == Append(chat_messages, Msg("user", prompt))
                             response == call_chat_bot(ev)
                         IN  /\ chat_messages' =
                                    Append(asked, Msg("assistant", response))
                             /\ shown' = [shown EXCEPT
                                             !.analysis = current_analysis,
                                             !.chat = chat_messages',
                                             !.sent = <<SystemMsg(data)>> \o asked]
                             /\ clock' = clock + 1
                             /\ chat_at' = chat_at \o <<clock + 1, clock + 1>>
                ELSE /\ shown' = [shown EXCEPT !.analysis = current_analysis,
                                               !.chat = chat_messages]
                     /\ UNCHANGED <<chat_messages, clock, chat_at>>
       ELSE UNCHANGED <<shown, chat_messages, clock, chat_at>>
    /\ pc' = "idle"
    /\ UNCHANGED <<xvars, rvars, sel_file, clicked, prompt, session_keys,
                   last_sel_file, current_analysis, ocr_res, eval_res, analysis_at>>

\* A widget that changes while the script runs stops the run at its next
\* Streamlit call and starts a new one: here before a step of the AI tab ...
Interrupt ==
    /\ pc \in {"sync", "button", "render"}
    /\ pc' = "idle"
    /\ UNCHANGED <<xvars, rvars, svars>>

\* ... and here within the chat turn: after the question is appended (line
\* 347), before or after call_chat_bot has been sent the messages, and
\* before the answer is appended (line 369).
RenderCut ==
    /\ pc = "render" /\ current_analysis # <<>> /\ prompt # None
    /\ LET asked == Append(chat_messages, Msg("user", prompt))
       IN  /\ chat_messages' = asked
           /\ \E sent \in BOOLEAN :
                  shown' = [shown EXCEPT
                               !.analysis = current_analysis,
                               !.chat = asked,
                               !.sent = IF sent
                                        THEN <<SystemMsg(current_analysis[1])>> \o asked
                                        ELSE <<>>]
    /\ clock' = clock + 1
    /\ chat_at' = Append(chat_at, clock + 1)
    /\ pc' = "idle"
    /\ UNCHANGED <<xvars, rvars, sel_file, clicked, prompt, session_keys,
                   last_sel_file, current_analysis, ocr_res, eval_res, analysis_at>>

NextSession ==
    \/ RerunStopped \/ RerunNoPdf \/ RerunTab
    \/ Sync \/ Button \/ Render
    \/ Interrupt \/ RenderCut

SpecSession == InitSession /\ [][NextSession]_vars

---------------------------------------------------------------------------
(* What the claims speak of, stated without the operators of the model. *)

\* The positions of s where nine digits in a row begin.
Windows(s) ==
    {i \in 1 .. Len(s) :
        /\ i + 8 <= Len(s)
        /\ \A k \in 0 .. 8 : s[i + k] \in {"0", "1", "2", "3", "4", "5", "6", "7", "8", "9"}}
Leftmost(S) == CHOOSE i \in S : \A j \in S : i <= j
LeftmostId(s) ==
    IF Windows(s) = {} THEN <<>>
    ELSE [k \in 1 .. 9 |-> s[Leftmost(Windows(s)) + k - 1]]

\* The identifier a roster row yields (<<>> when none), and the roster's.
RowId(row) == LeftmostId(RowStr(row))
RosterIds == {RowId(rows[k]) : k \in 1 .. Len(rows)} \ {<<>>}

\* A file that is excluded, on a roster with identifiers ids: a hidden or
\* temporary name, no identifier in the name, or an identifier not in ids.
Excluded(f, ids) ==
    \/ f.name # <<>> /\ f.name[1] = "."
    \/ Len(f.name) >= 2 /\ f.name[1] = "~" /\ f.name[2] = "$"
    \/ LeftmostId(f.name) \notin ids
IsSmall(f) == Len(f.bytes) <= 99
Entry(f) == <<LeftmostId(f.name), f.name>>
Counted(ids) == {k \in 1 .. Len(files) : ~Excluded(files[k], ids)}
CountedSmall(ids) == {k \in Counted(ids) : IsSmall(files[k])}
CountedBig(ids) == {k \in Counted(ids) : ~IsSmall(files[k])}

\* The entries of the files files[k], k in S, with content c, in the order
\* of the batch.
ClassOf(c, S) ==
    LET ks == {k \in S : files[k].bytes = c}
        Nth[n \in 1 .. Cardinality(ks)] ==
            CHOOSE k \in ks : Cardinality({j \in ks : j <= k}) = n
    IN  [n \in 1 .. Cardinality(ks) |-> Entry(files[Nth[n]])]

\* The places (group, position) of the digest groups.
Places == UNION {{<<d, k>> : k \in 1 .. Len(md5_map[d])} : d \in DOMAIN md5_map}

---------------------------------------------------------------------------
(* C1.  After the classification loop and the statistics step the submitted *)
(* and the missing identifiers are disjoint, and together they are exactly  *)
(* the identifiers of the roster.                                           *)
C1_RosterComplete ==
    pc = "done" =>
        /\ submitted_ids \cap missing_ids = {}
        /\ submitted_ids \cup missing_ids = RosterIds

\* A batch with a file of an unknown identifier, on a roster with a student
\* who has submitted and one who has not.
C1_Witness ==
    /\ pc = "done" /\ submitted_ids # {} /\ missing_ids # {}
    /\ \E k \in 1 .. Len(files) : LeftmostId(files[k].name) = ID3

(* C1 on the empty batch. *)
C1_WitnessEmptyBatch == pc = "done" /\ files = <<>> /\ missing_ids = RosterIds

---------------------------------------------------------------------------
(* C3 as stated.  Any two files of a batch are in one digest group when     *)
(* their contents are identical, and in no common digest group when their   *)
(* contents differ.                                                         *)
C3_AnyTwoFiles ==
    pc = "done" =>
        \A i, j \in 1 .. Len(files) :
            i # j =>
                (files[i].bytes = files[j].bytes) <=>
                    (\E p, q \in Places :
                        /\ p # q /\ p[1] = q[1]
                        /\ md5_map[p[1]][p[2]] = Entry(files[i])
                        /\ md5_map[q[1]][q[2]] = Entry(files[j]))

(* C3, amended.  The digest groups are exactly the classes of identical     *)
(* content among the files that are counted and have at least 100 bytes,    *)
(* one group for each content: two such files with identical content are in *)
(* the same group whatever their names, and two with different contents are *)
(* in different groups.                                                     *)
C3_GroupsAreContentClasses ==
    pc = "done" =>
        LET big == CountedBig(RosterIds)
        IN  /\ \A i \in big :
                   \E d \in DOMAIN md5_map : md5_map[d] = ClassOf(files[i].bytes, big)
            /\ \A d \in DOMAIN md5_map :
                   \E i \in big : md5_map[d] = ClassOf(files[i].bytes, big)
            /\ Cardinality(DOMAIN md5_map) = Cardinality({files[i].bytes : i \in big})

\* Two counted files with identical content and different names in one group.
C3_Witness ==
    /\ pc = "done"
    /\ \E i, j \in CountedBig(RosterIds) :
           /\ i # j /\ files[i].bytes = files[j].bytes
           /\ files[i].name # files[j].name
           /\ \E d \in DOMAIN md5_map : Len(md5_map[d]) = 2

---------------------------------------------------------------------------
(* C4.  Every counted file ends up in exactly one place.  The anomalous     *)
(* list holds one record for each counted file below 100 bytes, in order,   *)
(* and nothing else; each entry of the digest groups is the entry of one    *)
(* counted file of at least 100 bytes, and each such file has exactly one   *)
(* entry over all the groups.                                               *)
C4_ExactlyOnePlace ==
    pc = "done" =>
        LET ids == RosterIds
            big == CountedBig(ids)
            sel == SelectSeq(files, LAMBDA f : ~Excluded(f, ids) /\ IsSmall(f))
            places == Places
        IN  /\ Len(empty_files) = Len(sel)
            /\ \A k \in 1 .. Len(sel) :
                   /\ empty_files[k].fname = sel[k].name
                   /\ empty_files[k].sid = LeftmostId(sel[k].name)
                   /\ empty_files[k].name = roster_dict[LeftmostId(sel[k].name)]
                   /\ empty_files[k].size = NatStr(Len(sel[k].bytes)) \o <<"B">>
            /\ \A p \in places :
                   \E i \in big : md5_map[p[1]][p[2]] = Entry(files[i])
            /\ \A i \in big :
                   Cardinality({p \in places : md5_map[p[1]][p[2]] = Entry(files[i])})
                       = Cardinality({j \in big : Entry(files[j]) = Entry(files[i])})

\* A small counted file whose content another counted file shares.
C4_Witness ==
    /\ pc = "done"
    /\ \E i, j \in CountedSmall(RosterIds) : i # j /\ files[i].bytes = files[j].bytes
    /\ Len(empty_files) = 2 /\ md5_map = EmptyDict

---------------------------------------------------------------------------
(* C5.  An excluded file contributes nothing: the results are those of the  *)
(* batch without the excluded files, and every submitted identifier is the  *)
(* identifier of a file that is not excluded.                               *)
C5_ExcludedContributeNothing ==
    pc = "done" =>
        LET ids == RosterIds
            kept == SelectSeq(files, LAMBDA f : ~Excluded(f, ids))
            res == ClassifyAll(NoFiles, kept, roster_dict, all_students)
        IN  /\ submitted_data = res.submitted_data
            /\ files_map = res.files_map
            /\ md5_map = res.md5_map
            /\ empty_files = res.empty_files
            /\ submitted_ids = {LeftmostId(kept[k].name) : k \in 1 .. Len(kept)}
            /\ Len(submitted_data) = Len(kept)

\* A hidden file that names a student of the roster, beside a counted file.
C5_Witness ==
    /\ pc = "done" /\ Counted(RosterIds) # {}
    /\ \E k \in 1 .. Len(files) :
           /\ files[k].name[1] \in {".", "~"}
           /\ LeftmostId(files[k].name) \in RosterIds \ submitted_ids

---------------------------------------------------------------------------
(* The roster claims, under SpecRoster. *)

\* The rows that yield identifier sid, by their positions.
RowsOf(sid) == {k \in 1 .. Len(rows) : RowId(rows[k]) = sid}
First(S) == CHOOSE i \in S : \A j \in S : i <= j
Last(S) == CHOOSE i \in S : \A j \in S : i >= j

(* C2 as stated.  The entry kept for an identifier is the one derived from  *)
(* the first row, in input order, that yields the identifier.               *)
C2_FirstRowWins ==
    pc # "roster" =>
        \A sid \in DOMAIN roster_dict :
            roster_dict[sid] = PickName(rows[First(RowsOf(sid))], sid, 1)

(* C2, amended.  The entry kept for an identifier is the one derived from   *)
(* the last row, in input order, that yields the identifier: every later    *)
(* row with the identifier replaces the entry.                              *)
C2_LastRowWins ==
    pc # "roster" =>
        /\ DOMAIN roster_dict = RosterIds
        /\ \A sid \in DOMAIN roster_dict :
               roster_dict[sid] = PickName(rows[Last(RowsOf(sid))], sid, 1)

\* Two rows with one identifier and different names.
C2_Witness ==
    /\ pc # "roster"
    /\ \E sid \in DOMAIN roster_dict :
           /\ Cardinality(RowsOf(sid)) = 2
           /\ PickName(rows[First(RowsOf(sid))], sid, 1) # roster_dict[sid]

\* A cell as the claim reads it: a missing cell is the empty string; the
\* text of a cell is taken without the blanks around it.
CellText(cell) == IF cell = NaN THEN <<>> ELSE Strip(cell.val)
Qualifies(t, sid) ==
    /\ t # sid
    /\ \E k \in 1 .. Len(t) : t[k] \notin Digits
    /\ Len(t) >= 2
ExpectedName(row, sid) ==
    LET ok == {k \in 1 .. Len(row) : Qualifies(CellText(row[k]), sid)}
    IN  IF ok = {} THEN UnknownName ELSE CellText(row[First(ok)])

(* C6.  The display name of a row that yields an identifier is the first    *)
(* cell, a missing cell taken as the empty string, that is not the          *)
(* identifier, is not purely numeric and has at least two characters, and   *)
(* the sentinel when no cell qualifies; a missing cell is never the name.   *)
(* (Read off the roster for the row that decides the entry.)                *)
C6_DisplayName ==
    pc # "roster" =>
        \A sid \in DOMAIN roster_dict :
            roster_dict[sid] = ExpectedName(rows[Last(RowsOf(sid))], sid)

---------------------------------------------------------------------------
(* C7.  extract_id returns the leftmost window of nine digits of the string *)
(* form of its argument (so the first nine digits of a longer run), and     *)
(* None when the string has no nine digits in a row.                        *)
C7_LeftmostWindow ==
    pc = "returned" =>
        /\ extracted = LeftmostId(Str(text))
        /\ (Windows(Str(text)) = {}) <=> (extracted = None)

\* A string with two windows, the first of them in a run of ten digits.
C7_Witness ==
    /\ pc = "returned" /\ text.type = "str"
    /\ Cardinality(Windows(text.val)) >= 3
    /\ 1 \notin Windows(text.val)
    /\ \E i \in Windows(text.val) : i + 1 \in Windows(text.val)
    /\ \E i \in Windows(text.val) : SubSeq(text.val, i, i + 8) # extracted
    /\ extracted # None

(* C7 on a value that is not a str. *)
C7_WitnessInt == pc = "returned" /\ text.type = "int" /\ extracted = ID1

---------------------------------------------------------------------------
(* The claims on the AI tab, under SpecSession. *)

\* The step of lines 286-298, taken with a selection already in the session.
Selecting == pc = "sync" /\ pc' = "button" /\ "last_sel_file" \in session_keys

(* C8.  Whenever the selected file differs from the file selected before,   *)
(* the stored analysis is discarded and the chat history is emptied, and    *)
(* this before the run has rendered anything of them; selecting the same    *)
(* file again leaves both unchanged.                                        *)
C8_SwitchResets ==
    [][Selecting =>
          /\ shown.analysis = <<>> /\ shown.chat = <<>> /\ shown.sent = <<>>
          /\ last_sel_file # sel_file =>
                 /\ current_analysis' = <<>>
                 /\ chat_messages' = <<>>
                 /\ last_sel_file' = sel_file
          /\ last_sel_file = sel_file =>
                 UNCHANGED <<current_analysis, chat_messages, last_sel_file>>]_vars

\* After the switch away from a file with a stored analysis and a chat.
C8_Witness ==
    /\ pc = "button" /\ current_analysis = <<>> /\ chat_messages = <<>>
    /\ analysis_at.at > 0 /\ analysis_at.of # sel_file
    /\ clock > analysis_at.at

(* C8, the same file selected again: the analysis and the chat are kept.    *)
C8_WitnessSameFile ==
    /\ pc = "button" /\ ~clicked /\ prompt = None
    /\ current_analysis # <<>> /\ Len(chat_messages) = 2

(* C9.  When the OCR call of an analysis run fails in any way, the run      *)
(* shows the error, does not call the grader, does not store the failure    *)
(* text as the OCR content of an analysis, and leaves the stored analysis,  *)
(* the chat history and the reconciliation results as they were.            *)
C9_OcrFailureIsolated ==
    [][(pc = "button" /\ pc' = "render" /\ clicked /\ ocr_res'.status # "ok") =>
          /\ shown'.error = ocr_res'.text
          /\ eval_res' = <<>>
          /\ UNCHANGED <<current_analysis, chat_messages>>
          /\ \A k \in 1 .. Len(current_analysis') :
                 current_analysis'[k].ocr # ocr_res'.text
          /\ UNCHANGED <<submitted_ids, missing_ids, md5_map, empty_files>>]_vars

(* C10.  Where an analysis is rendered or a chat turn is sent, the stored   *)
(* analysis was produced by an analysis run on the file name now selected   *)
(* and every chat message was appended after that analysis was stored; the  *)
(* chat history is empty whenever no analysis is stored.                    *)
C10_SessionConsistent ==
    /\ current_analysis = <<>> => chat_messages = <<>>
    /\ Len(chat_at) = Len(chat_messages)
    /\ (current_analysis # <<>> /\ (pc = "render" \/ shown.analysis # <<>>)) =>
           /\ analysis_at.of = sel_file
           /\ last_sel_file = sel_file
           /\ \A k \in 1 .. Len(chat_at) : chat_at[k] > analysis_at.at
    /\ shown.analysis # <<>> => shown.analysis = current_analysis
    /\ shown.sent # <<>> =>
           /\ current_analysis # <<>>
           /\ shown.sent[1] = SystemMsg(current_analysis[1])
           /\ SubSeq(shown.sent, 2, Len(shown.sent))
                  = SubSeq(chat_messages, 1, Len(shown.sent) - 1)
           /\ Len(chat_messages) - Len(shown.sent) \in {-1, 0}

\* A chat turn on the second analysis of a file selected again after a run
\* with another file and a run with no PDF.
C10_Witness ==
    /\ pc = "idle" /\ shown.sent # <<>> /\ Len(chat_messages) = 2
    /\ analysis_at.at >= 2 /\ sel_file = NameA
    /\ files[1].bytes = BigOther

===========================================================================
